---- MODULE Spec2Model ----
(***************************************************************************)
(* Resumable CSV upload: the tus protocol endpoint (api/upload), its       *)
(* onUploadCreate / onUploadFinish hooks, the S3-backed upload store and   *)
(* the status read path (api/upload-status/[id]).                          *)
(*                                                                         *)
(* Optional JavaScript values (undefined or a string) are sequences:       *)
(* <<>> is undefined, <<s>> is the string s.                               *)
(***************************************************************************)
EXTENDS Integers, Sequences, FiniteSets, TLC

\* ------------------------------------------------------------------ bounds

\* Number of create requests (each gets its own upload id).
MaxCreates == 1

\* ------------------------------------------------------- program constants

MAX_CSV_SIZE == 50 * 1024 * 1024

\* ---------------------------------------------------------------- values

Absent == <<>>
Some(s) == <<s>>

\* JavaScript truthiness of an optional string.
Truthy(o) == o # Absent /\ o[1] # ""

Ids == 1 .. MaxCreates

\* Upload.metadata as sent by the client in Upload-Metadata: an open
\* string map, of which the four keys the program reads are kept.
\* defined = FALSE is an upload created without metadata.
Metadata(ft, pe, ps, pc) ==
    [defined |-> TRUE, filetype |-> ft, processing_error |-> pe,
     processing_status |-> ps, processing_completed_at |-> pc]

NoMetadata ==
    [defined |-> FALSE, filetype |-> Absent, processing_error |-> Absent,
     processing_status |-> Absent, processing_completed_at |-> Absent]

PlainCsv == Metadata(Some("text/csv"), Absent, Absent, Absent)

MetadataChoices ==
    { NoMetadata,
      Metadata(Absent, Absent, Absent, Absent),
      Metadata(Some("application/json"), Absent, Absent, Absent),
      PlainCsv,
      Metadata(Some("text/csv"), Some("E"), Some("success"), Absent),
      Metadata(Some("text/csv"), Some(""), Some("success"), Some("T")) }

\* Declared lengths (Upload-Length) of the create requests.
Sizes == { 1000, MAX_CSV_SIZE, MAX_CSV_SIZE + 1, 60 * 1024 * 1024 }

\* upload.metadata?.filetype
FiletypeOf(md) == IF md.defined THEN md.filetype ELSE Absent

\* An upload record of the store; present = FALSE is "no such upload".
NoUpload == [present |-> FALSE, size |-> 0, offset |-> 0, metadata |-> NoMetadata]

NewUpload(size, md) == [present |-> TRUE, size |-> size, offset |-> 0, metadata |-> md]

\* ------------------------------------------------------------- state

VARIABLES
    store,       \* upload id -> upload record kept by the S3 store
    nextId,      \* number of create requests received so far
    creates,     \* upload id -> the create request and the response it got
    hookPc,      \* upload id -> position of onUploadFinish for that upload
    hookCalls,   \* upload id -> number of invocations of onUploadFinish
    reply,       \* upload id -> what the processing service answered
    hookOut,     \* upload id -> result of onUploadFinish (thrown?, errorMessage)
    finalResp,   \* upload id -> response to the completing PATCH request
    chunks,      \* upload id -> number of non-empty chunks accepted
    sent,        \* the response the latest step sent to a client, if any
    svcRequests, \* upload id -> the requests sent to POST /process-csv
    waited,      \* upload id -> seconds the hook has waited on the service
    page,        \* which of the two upload pages the browser shows
    clientPc,    \* position of the page's upload (tus.Upload and callbacks)
    file,        \* the selected file: its type and size
    retryAttempt,  \* retries the current upload has used
    lastDelay,   \* the delay before the latest retry
    uploadStatus,  \* the page's uploadStatus state
    uploadProgress, \* the page's uploadProgress state
    polls,       \* status queries the page has issued for the upload
    tusStatus,   \* HTTP status of the upload's latest response (0: none)
    answer,      \* the answer the page's status query got
    uploads,     \* files selected on the page so far
    stale        \* the timer / status query of an earlier upload, still pending

\* The state of the server side and of the browser side.
svars == <<store, nextId, creates, hookPc, hookCalls, reply, hookOut,
           finalResp, chunks, sent, svcRequests>>

cvars == <<page, clientPc, file, retryAttempt, lastDelay, uploadStatus,
           uploadProgress, polls, tusStatus, answer, uploads, stale>>

vars == <<svars, waited, cvars>>

\* The JSON body of a status response.
StatusBody(status, error, completedAt) ==
    [status |-> status, error |-> error, completedAt |-> completedAt]

NoBody == StatusBody(Absent, Absent, Absent)

\* A response: the request's method and upload id, the HTTP status, the
\* Upload-Offset header and the JSON body.
Sent(op, id, http, offset, body) ==
    [op |-> op, id |-> id, http |-> http, offset |-> offset, body |-> body]

NoSent == Sent("none", 0, 0, 0, NoBody)

\* ------------------------------------------------------ onUploadCreate

NoCreate == [made |-> FALSE, metadata |-> NoMetadata, size |-> 0, status |-> 0]

\* onUploadCreate that checks the size only.
onUploadCreate_AnyType(md, size) ==
    IF size # 0 /\ size > MAX_CSV_SIZE THEN 413 ELSE 0

\* onUploadCreate that rejects the maximum size itself.
onUploadCreate_Inclusive(md, size) ==
    IF FiletypeOf(md) # Some("text/csv") THEN 400
    ELSE IF size # 0 /\ size >= MAX_CSV_SIZE THEN 413
    ELSE 0

\* The hook's verdict on a create request: the status code it throws, or
\* 0 when it returns { metadata: upload.metadata }.
onUploadCreate(md, size) ==
    IF FiletypeOf(md) # Some("text/csv") THEN 400
    ELSE IF size # 0 /\ size > MAX_CSV_SIZE THEN 413
    ELSE 0

\* POST /api/upload: the engine assigns the id, runs onUploadCreate and
\* creates the upload in the store only when the hook did not throw.
Create(md, size) ==
    /\ nextId < MaxCreates
    /\ LET id == nextId + 1
           thrown == onUploadCreate(md, size)
           http == IF thrown = 0 THEN 201 ELSE thrown
       IN  /\ nextId' = id
           /\ creates' = [creates EXCEPT ![id] =
                  [made |-> TRUE, metadata |-> md, size |-> size, status |-> http]]
           /\ store' = IF thrown = 0
                       THEN [store EXCEPT ![id] = NewUpload(size, md)]
                       ELSE store
           /\ sent' = Sent("POST", id, http, 0, NoBody)
    /\ UNCHANGED <<hookPc, hookCalls, reply, hookOut, finalResp, chunks,
                   svcRequests>>
    /\ UNCHANGED <<waited, cvars>>

\* ------------------------------------------------- GET upload-status/[id]

\* s3Store.getUpload(uploadId): the upload when it exists. For an id the
\* store does not hold, the handler provides for both a falsy result and
\* a rejected promise (the S3 store rejects with FILE_NOT_FOUND).
getUpload(id) ==
    IF store[id].present
    THEN { [threw |-> FALSE, upload |-> store[id]] }
    ELSE { [threw |-> FALSE, upload |-> NoUpload],
           [threw |-> TRUE, upload |-> NoUpload] }

\* A status route that looks at processing_status before processing_error.
GET_SuccessFirst(id, r) ==
    IF r.threw
    THEN Sent("STATUS", id, 500, 0,
              StatusBody(Absent, Some("Failed to check upload status"), Absent))
    ELSE IF ~r.upload.present
    THEN Sent("STATUS", id, 404, 0,
              StatusBody(Absent, Some("Upload not found"), Absent))
    ELSE LET metadata == r.upload.metadata IN
         IF metadata.processing_status = Some("success")
         THEN Sent("STATUS", id, 200, 0,
                   StatusBody(Some("success"), Absent,
                              metadata.processing_completed_at))
         ELSE IF Truthy(metadata.processing_error)
         THEN Sent("STATUS", id, 200, 0,
                   StatusBody(Some("error"), metadata.processing_error, Absent))
         ELSE Sent("STATUS", id, 200, 0, StatusBody(Some("unknown"), Absent, Absent))

\* The handler's response for upload id and the result r of getUpload.
GET(id, r) ==
    IF r.threw
    THEN Sent("STATUS", id, 500, 0,
              StatusBody(Absent, Some("Failed to check upload status"), Absent))
    ELSE IF ~r.upload.present
    THEN Sent("STATUS", id, 404, 0,
              StatusBody(Absent, Some("Upload not found"), Absent))
    ELSE LET metadata == r.upload.metadata IN
         IF Truthy(metadata.processing_error)
         THEN Sent("STATUS", id, 200, 0,
                   StatusBody(Some("error"), metadata.processing_error, Absent))
         ELSE IF metadata.processing_status = Some("success")
         THEN Sent("STATUS", id, 200, 0,
                   StatusBody(Some("success"), Absent,
                              metadata.processing_completed_at))
         ELSE Sent("STATUS", id, 200, 0, StatusBody(Some("unknown"), Absent, Absent))

\* A status route that records the query in the upload it reads.
StatusQuery_Touch(id) ==
    /\ \E r \in getUpload(id) : sent' = GET(id, r)
    /\ store' = IF store[id].present
                THEN [store EXCEPT ![id].metadata.processing_status = Some("checked")]
                ELSE store
    /\ UNCHANGED <<nextId, creates, hookPc, hookCalls, reply, hookOut,
                   finalResp, chunks, svcRequests>>
    /\ UNCHANGED <<waited, cvars>>

StatusQuery(id) ==
    /\ \E r \in getUpload(id) : sent' = GET(id, r)
    /\ UNCHANGED <<store, nextId, creates, hookPc, hookCalls, reply, hookOut,
                   finalResp, chunks, svcRequests>>
    /\ UNCHANGED <<waited, cvars>>

\* ------------------------------------------------------ onUploadFinish

\* What the processing service did with the hook's request.
\*   fetch: "pending" | "ok" (2xx headers) | "not_ok" (non-2xx headers)
\*          | "connfail" (fetch rejects) | "abort" (the 30 s timer fired)
\*   body:  "none" | "text" (read by text()) | "json" (parsed by json())
\*          | "malformed" (json() rejects) | "null" (the JSON value null)
Reply(fetch, body, text, success, error) ==
    [fetch |-> fetch, body |-> body, text |-> text, success |-> success,
     error |-> error]

NoReply == Reply("pending", "none", "", FALSE, Absent)

FetchOutcomes == { "ok", "not_ok", "connfail", "abort" }

\* Bodies of a non-2xx response, read with processingResponse.text().
TextBodies == { Reply("not_ok", "text", "boom", FALSE, Absent) }

\* Bodies of a 2xx response, read with processingResponse.json().
JsonBodies == { Reply("ok", "json", "", TRUE, Absent),
                Reply("ok", "json", "", FALSE, Some("X")),
                Reply("ok", "json", "", FALSE, Absent),
                Reply("ok", "malformed", "", FALSE, Absent),
                Reply("ok", "null", "", FALSE, Absent) }

\* A thrown JavaScript value: a plain object literal or an Error.
Thrown(isError, name, body, message) ==
    [thrown |-> TRUE, isError |-> isError, name |-> name, body |-> body,
     message |-> message]

NoThrow == [thrown |-> FALSE, isError |-> FALSE, name |-> "", body |-> Absent,
            message |-> Absent]

\* a || b for an optional string a
OrElse(a, b) == IF Truthy(a) THEN a[1] ELSE b

\* The try block: the value it throws for a reply, or NoThrow.
TryBlock(r) ==
    IF r.fetch = "abort"
    THEN Thrown(TRUE, "AbortError", Absent, Some("This operation was aborted"))
    ELSE IF r.fetch = "connfail"
    THEN Thrown(TRUE, "TypeError", Absent, Some("fetch failed"))
    ELSE IF r.fetch = "not_ok"
    THEN Thrown(FALSE, "", Some("Failed to process CSV: " \o r.text), Absent)
    ELSE IF r.body = "malformed"
    THEN Thrown(TRUE, "SyntaxError", Absent, Some("Unexpected token"))
    ELSE IF r.body = "null"
    THEN Thrown(TRUE, "TypeError", Absent, Some("Cannot read properties of null"))
    ELSE IF ~r.success
    THEN Thrown(FALSE, "", Some(OrElse(r.error, "CSV processing failed")), Absent)
    ELSE NoThrow

\* error.message.includes("fetch failed"), for the messages of the model
IncludesFetchFailed(m) == m = "fetch failed"

\* The catch block: the errorMessage it derives from the thrown value.
CatchBlock(e) ==
    IF e.body # Absent THEN e.body[1]
    ELSE IF e.message # Absent THEN e.message[1]
    ELSE IF e.isError
    THEN IF e.name = "AbortError"
         THEN "CSV processing timed out. Please try again with a smaller file."
         ELSE IF e.message # Absent /\ IncludesFetchFailed(e.message[1])
         THEN "CSV processing service is not available. Please check if the processing service is running."
         ELSE OrElse(e.message, "")
    ELSE "Unknown error during CSV processing"

\* A write to the upload's metadata: the values it sets for the three
\* outcome keys (Absent leaves a key as it is).
Write(pe, ps, pc) ==
    [processing_error |-> pe, processing_status |-> ps,
     processing_completed_at |-> pc]

\* The metadata md after the writes ws, applied in order.
RECURSIVE ApplyWrites(_, _)
ApplyWrites(md, ws) ==
    IF ws = <<>> THEN md
    ELSE LET w == Head(ws)
             next == [md EXCEPT
                 !.defined = TRUE,
                 !.processing_error =
                     IF w.processing_error # Absent THEN w.processing_error ELSE @,
                 !.processing_status =
                     IF w.processing_status # Absent THEN w.processing_status ELSE @,
                 !.processing_completed_at =
                     IF w.processing_completed_at # Absent
                     THEN w.processing_completed_at ELSE @]
         IN  ApplyWrites(next, Tail(ws))

NoHookOut == [threw |-> FALSE, errorMessage |-> Absent, writes |-> <<>>]

\* onUploadFinish without its try/catch: the thrown value escapes.
onUploadFinish_NoCatch(r) ==
    LET e == TryBlock(r) IN
    [threw |-> e.thrown,
     errorMessage |-> Absent,
     writes |-> <<>>]

\* onUploadFinish that stores the outcome in the upload's metadata.
onUploadFinish_Stores(r) ==
    LET e == TryBlock(r) IN
    [threw |-> FALSE,
     errorMessage |-> IF e.thrown THEN Some(CatchBlock(e)) ELSE Absent,
     writes |-> IF e.thrown
                THEN << Write(Some(CatchBlock(e)), Absent, Absent) >>
                ELSE << Write(Absent, Some("success"), Some("now")) >>]

\* onUploadFinish for a reply: whether it throws to the engine, the
\* errorMessage it logs and the writes it makes to the upload's metadata.
\* It returns {} and writes nothing.
onUploadFinish(r) ==
    LET e == TryBlock(r) IN
    [threw |-> FALSE,
     errorMessage |-> IF e.thrown THEN Some(CatchBlock(e)) ELSE Absent,
     writes |-> <<>>]

\* JSON.stringify({ s3_key: upload.id, table_name: upload.id })
requestBody_Filename(id) == [s3_key |-> id, table_name |-> 0]

requestBody(id) == [s3_key |-> id, table_name |-> id]

\* The hook is invoked for upload u and runs up to its await fetch(...):
\* it starts the 30 s timer and sends one request.
HookStart(u) ==
    /\ hookPc' = [hookPc EXCEPT ![u] = "fetch"]
    /\ hookCalls' = [hookCalls EXCEPT ![u] = @ + 1]
    /\ reply' = [reply EXCEPT ![u] = NoReply]
    /\ hookOut' = [hookOut EXCEPT ![u] = NoHookOut]
    /\ svcRequests' = [svcRequests EXCEPT ![u] = Append(@, requestBody(u))]

HookInFlight(u) == hookPc[u] \in { "fetch", "text", "json" }

HookEnded(u) == hookPc[u] \in { "returned", "threw" }

\* The hook runs to its end with the reply r.
Finish(u, r) ==
    LET out == onUploadFinish(r) IN
    /\ reply' = [reply EXCEPT ![u] = r]
    /\ hookOut' = [hookOut EXCEPT ![u] = out]
    /\ hookPc' = [hookPc EXCEPT ![u] = IF out.threw THEN "threw" ELSE "returned"]
    /\ store' = [store EXCEPT ![u].metadata = ApplyWrites(@, out.writes)]

\* await fetch(...) settles: headers arrive, the connection fails, or the
\* timer aborts the request.
FetchSettle(u, f) ==
    /\ hookPc[u] = "fetch"
    /\ IF f = "ok"
       THEN /\ hookPc' = [hookPc EXCEPT ![u] = "json"]
            /\ reply' = [reply EXCEPT ![u].fetch = f]
            /\ UNCHANGED <<hookOut, store>>
       ELSE IF f = "not_ok"
       THEN /\ hookPc' = [hookPc EXCEPT ![u] = "text"]
            /\ reply' = [reply EXCEPT ![u].fetch = f]
            /\ UNCHANGED <<hookOut, store>>
       ELSE Finish(u, Reply(f, "none", "", FALSE, Absent))
    /\ sent' = NoSent
    /\ UNCHANGED <<nextId, creates, hookCalls, finalResp, chunks, svcRequests>>
    /\ UNCHANGED <<waited, cvars>>

\* await processingResponse.text() / .json() settles (the timer is
\* cleared by now).
BodySettle(u, b) ==
    /\ \/ hookPc[u] = "text" /\ b \in TextBodies
       \/ hookPc[u] = "json" /\ b \in JsonBodies
    /\ Finish(u, b)
    /\ sent' = NoSent
    /\ UNCHANGED <<nextId, creates, hookCalls, finalResp, chunks, svcRequests>>
    /\ UNCHANGED <<waited, cvars>>

\* --------------------------------------------------- protocol engine

NoResp == [status |-> 0, offset |-> 0]

\* Chunk lengths and offsets a client sends for an upload of a given size.
ChunkLens(size) == { 0, size \div 2, size }

Offsets(size) == { 0, size \div 2, size }

\* An engine that processes a PATCH on a complete upload again.
PatchVerdict_Reprocess(u, off, len) ==
    IF ~store[u].present THEN 404
    ELSE IF off # store[u].offset THEN 409
    ELSE IF off + len > store[u].size THEN 413
    ELSE 0

\* An engine that accepts bytes beyond the declared length.
PatchVerdict_NoLimit(u, off, len) ==
    IF ~store[u].present THEN 404
    ELSE IF off # store[u].offset THEN 409
    ELSE IF store[u].offset = store[u].size THEN 409
    ELSE 0

\* The engine's verdict on PATCH (off, len) for upload u: 0 to accept, or
\* the status of the rejection.
PatchVerdict(u, off, len) ==
    IF ~store[u].present THEN 404
    ELSE IF off # store[u].offset THEN 409
    ELSE IF store[u].offset = store[u].size THEN 409
    ELSE IF off + len > store[u].size THEN 413
    ELSE 0

\* PATCH /api/upload/<u>: append len bytes at offset off. The chunk that
\* completes the upload invokes onUploadFinish, which runs up to its
\* await fetch(...); the response waits for the hook.
Patch(u, off, len) ==
    LET verdict == PatchVerdict(u, off, len)
        newOffset == off + len
    IN
    /\ IF verdict # 0
       THEN /\ sent' = Sent("PATCH", u, verdict, 0, NoBody)
            /\ UNCHANGED <<store, nextId, creates, hookPc, hookCalls, reply,
                           hookOut, finalResp, chunks, svcRequests>>
       ELSE /\ store' = [store EXCEPT ![u].offset = newOffset]
            /\ chunks' = [chunks EXCEPT ![u] = IF len > 0 THEN @ + 1 ELSE @]
            /\ IF newOffset = store[u].size
               THEN /\ HookStart(u)
                    /\ finalResp' = [finalResp EXCEPT ![u] = NoResp]
                    /\ sent' = NoSent
               ELSE /\ sent' = Sent("PATCH", u, 204, newOffset, NoBody)
                    /\ UNCHANGED <<hookPc, hookCalls, reply, hookOut, finalResp,
                                   svcRequests>>
            /\ UNCHANGED <<nextId, creates>>
    /\ UNCHANGED <<waited, cvars>>

\* An engine that answers the completing PATCH while the hook still runs.
PatchRespond_Early(u) ==
    /\ HookInFlight(u) \/ HookEnded(u)
    /\ finalResp[u] = NoResp
    /\ finalResp' = [finalResp EXCEPT ![u] =
                        [status |-> 204, offset |-> store[u].offset]]
    /\ sent' = Sent("PATCH", u, 204, store[u].offset, NoBody)
    /\ UNCHANGED <<store, nextId, creates, hookPc, hookCalls, reply, hookOut,
                   chunks, svcRequests>>
    /\ UNCHANGED <<waited, cvars>>

\* The completing PATCH is answered once the hook has ended: 204 with the
\* new offset when it returned, the error when it threw.
PatchRespond(u) ==
    /\ HookEnded(u)
    /\ finalResp[u] = NoResp
    /\ LET r == IF hookPc[u] = "returned"
                THEN [status |-> 204, offset |-> store[u].offset]
                ELSE [status |-> 500, offset |-> 0]
       IN  /\ finalResp' = [finalResp EXCEPT ![u] = r]
           /\ sent' = Sent("PATCH", u, r.status, r.offset, NoBody)
    /\ UNCHANGED <<store, nextId, creates, hookPc, hookCalls, reply, hookOut,
                   chunks, svcRequests>>
    /\ UNCHANGED <<waited, cvars>>

\* HEAD /api/upload/<u>: the current offset.
HEAD(u) ==
    /\ sent' = IF store[u].present
               THEN Sent("HEAD", u, 200, store[u].offset, NoBody)
               ELSE Sent("HEAD", u, 404, 0, NoBody)
    /\ UNCHANGED <<store, nextId, creates, hookPc, hookCalls, reply, hookOut,
                   finalResp, chunks, svcRequests>>
    /\ UNCHANGED <<waited, cvars>>

\* ------------------------------------------- hook timing (seconds)

\* setTimeout(() => controller.abort(), 30000)
HOOK_TIMEOUT == 30

\* Granularity of the clock and the longest wait the model follows.
TickStep == 10

MaxWait == 40

Min(a, b) == IF a < b THEN a ELSE b

\* Time passes for the hook of upload u while it awaits the service.
\* While fetch is pending and the timer is armed, time cannot pass the
\* timer's deadline without the timer firing.
Tick(u) ==
    /\ HookInFlight(u)
    /\ waited[u] < MaxWait
    /\ hookPc[u] = "fetch" => waited[u] < HOOK_TIMEOUT
    /\ waited' = [waited EXCEPT ![u] =
           IF hookPc[u] = "fetch"
           THEN Min(@ + TickStep, HOOK_TIMEOUT)
           ELSE @ + TickStep]
    /\ UNCHANGED <<svars, cvars>>

\* await fetch(...) settles, on the clock: the abort comes from the timer
\* at its deadline, any other outcome arrives before it.
TimedFetchSettle(u, f) ==
    /\ f = "abort" <=> waited[u] = HOOK_TIMEOUT
    /\ FetchSettle(u, f)

\* ------------------------------------------------------ upload pages

\* The two pages: "transfer" reports on the transfer alone, "polling"
\* asks the status route after the transfer.
Pages == { "transfer", "polling" }

\* retryDelays: [0, 3000, 5000, 10000]
retryDelays_Unsorted == << 0, 5000, 3000, 10000 >>

retryDelays == << 0, 3000, 5000, 10000 >>

\* setTimeout(..., 2000) before the status query
SETTLE_DELAY == 2000

FileTypes == { "text/csv", "application/json" }

FileSizes == { 1000, MAX_CSV_SIZE + 1 }

NoFile == [type |-> "", size |-> 0]

\* uploadStatus: a message text and the value interpolated into it.
Status(text, arg) == [text |-> text, arg |-> arg]

SuccessText == "Upload and CSV processing completed successfully!"

UnknownText == "Upload completed, but processing status is unknown"

UnverifiedText == "Upload completed, but could not verify processing status"

\* The answer to the page's status query: a response, or a rejected
\* fetch / unparsable body.
NoAnswer == [settled |-> FALSE, rejects |-> FALSE, resp |-> NoSent]

Answer(resp) == [settled |-> TRUE, rejects |-> FALSE, resp |-> resp]

Rejected == [settled |-> TRUE, rejects |-> TRUE, resp |-> NoSent]

\* The answers of the status route for upload 1 in its possible states,
\* and a failed request.
PollAnswers ==
    { Answer(GET(1, [threw |-> FALSE, upload |-> NewUpload(1000, md)])) :
          md \in { m \in MetadataChoices : FiletypeOf(m) = Some("text/csv") } }
    \cup { Answer(GET(1, [threw |-> FALSE, upload |-> NoUpload])),
           Answer(GET(1, [threw |-> TRUE, upload |-> NoUpload])),
           Rejected }

\* The error tus-js-client passes to onError: its message and the status
\* of the response it came from (0: no response).
TusError(status) ==
    [message |-> Some("tus: upload failed"), hasRequest |-> TRUE,
     status |-> status]

\* onError: the text shown after "Error: ".
onErrorMessage(error) ==
    IF Truthy(error.message) THEN error.message[1]
    ELSE IF error.hasRequest
    THEN IF error.status = 500
         THEN "CSV processing failed. Please check your file format and try again."
         ELSE IF error.status = 400
         THEN "Invalid file type. Only CSV files are allowed."
         ELSE IF error.status = 413
         THEN "File too large. Maximum size is 50MB."
         ELSE "Upload failed with status " \o ToString(error.status)
    ELSE "Upload failed"

\* onError(error)
onError(error) ==
    /\ uploadStatus' = Status("Error: ", Some(onErrorMessage(error)))
    /\ uploadProgress' = 0
    /\ clientPc' = "failed"

\* tus-js-client retries a failed request when delays are left and the
\* failure is not a client error (4xx other than 409 and 423).
Retriable(status) == status = 0 \/ status >= 500 \/ status \in { 409, 423 }

\* A request of the upload failed with the given status: retry after the
\* next delay, or report the error.
RequestFailed(status, phase) ==
    IF Retriable(status) /\ retryAttempt < Len(retryDelays)
    THEN /\ retryAttempt' = retryAttempt + 1
         /\ lastDelay' = retryDelays[retryAttempt + 1]
         /\ clientPc' = phase
         /\ UNCHANGED <<uploadStatus, uploadProgress>>
    ELSE /\ onError(TusError(status))
         /\ UNCHANGED <<retryAttempt, lastDelay>>

InitClient(pg) ==
    /\ page = pg
    /\ clientPc = "idle"
    /\ file = NoFile
    /\ retryAttempt = 0
    /\ lastDelay = 0
    /\ uploadStatus = Status("", Absent)
    /\ uploadProgress = 0
    /\ polls = 0
    /\ tusStatus = 0
    /\ uploads = 0
    /\ stale = "none"
    /\ answer = NoAnswer

\* Files the page follows in one behaviour.
MaxUploads == 2

\* The transfer of the page's upload has ended (or none was started):
\* the tus upload makes no further callback.
TransferEnded ==
    clientPc \in { "idle", "failed", "done", "settling", "polling", "polled" }

\* The page leaves its upload: a timer or status query still pending for
\* it stays pending (nothing cancels it). One such is followed at a time.
LeaveUpload ==
    IF clientPc \in { "settling", "polling" }
    THEN /\ stale \in { "none", "applied" }
         /\ stale' = clientPc
    ELSE UNCHANGED stale

\* resetUpload, from the "Upload Another File" button: the transfer page
\* renders it whenever a file is selected, the polling page when the
\* status starts with "Error:" or includes "successfully".
resetUpload ==
    /\ file # NoFile
    /\ page = "polling" => uploadStatus.text \in { "Error: ", SuccessText }
    /\ TransferEnded
    /\ LeaveUpload
    /\ file' = NoFile
    /\ uploadProgress' = 0
    /\ uploadStatus' = Status("", Absent)
    /\ clientPc' = "idle"
    /\ UNCHANGED <<page, retryAttempt, lastDelay, polls, tusStatus, answer,
                   uploads>>
    /\ UNCHANGED <<svars, waited>>

\* handleUpload: a file is selected in the input (always enabled); a new
\* upload is built and findPreviousUploads() is pending.
handleUpload(type, size) ==
    /\ uploads < MaxUploads
    /\ TransferEnded
    /\ LeaveUpload
    /\ uploads' = uploads + 1
    /\ file' = [type |-> type, size |-> size]
    /\ uploadProgress' = 0
    /\ uploadStatus' = Status("Starting upload...", Absent)
    /\ clientPc' = "discovering"
    /\ retryAttempt' = 0
    /\ lastDelay' = 0
    /\ polls' = 0
    /\ tusStatus' = 0
    /\ answer' = NoAnswer
    /\ UNCHANGED page
    /\ UNCHANGED <<svars, waited>>

\* The server's verdict on a create request for file f.
Verdict(f) ==
    onUploadCreate(Metadata(Some(f.type), Absent, Absent, Absent), f.size)

\* findPreviousUploads() resolves and upload.start() is called: a found
\* upload (one the server accepted earlier) is resumed, otherwise the
\* upload is created.
Discovered(previous) ==
    /\ clientPc = "discovering"
    /\ previous => Verdict(file) = 0
    /\ IF previous
       THEN /\ uploadStatus' = Status("Resuming upload...", Absent)
            /\ clientPc' = "transferring"
       ELSE /\ clientPc' = "creating"
            /\ UNCHANGED uploadStatus
    /\ UNCHANGED <<page, file, retryAttempt, lastDelay, uploadProgress, polls,
                   tusStatus, answer>>
    /\ UNCHANGED <<svars, waited, uploads, stale>>

\* The create request settles: the server's verdict (onUploadCreate on
\* the file's type and size), or no response at all.
CreateSettle(reached) ==
    /\ clientPc = "creating"
    /\ LET verdict == Verdict(file)
       IN  IF reached /\ verdict = 0
           THEN /\ clientPc' = "transferring"
                /\ UNCHANGED <<retryAttempt, lastDelay, uploadStatus,
                               uploadProgress>>
           ELSE RequestFailed(IF reached THEN verdict ELSE 0, "creating-retry")
    /\ tusStatus' = IF ~reached THEN 0
                    ELSE IF Verdict(file) = 0 THEN 201 ELSE Verdict(file)
    /\ UNCHANGED <<page, file, polls, answer>>
    /\ UNCHANGED <<svars, waited, uploads, stale>>

\* onProgress(bytesUploaded, bytesTotal)
onProgress(bytesUploaded, bytesTotal) ==
    LET percentage == (bytesUploaded * 100) \div bytesTotal IN
    /\ clientPc = "transferring"
    /\ uploadProgress' = percentage
    /\ uploadStatus' = Status("Uploading: ", Some(ToString(percentage)))
    /\ UNCHANGED <<page, clientPc, file, retryAttempt, lastDelay, polls,
                   tusStatus, answer>>
    /\ UNCHANGED <<svars, waited, uploads, stale>>

\* onSuccess of the "transfer" page.
onSuccess_Transfer ==
    /\ uploadStatus' = Status(SuccessText, Absent)
    /\ clientPc' = "done"
    /\ UNCHANGED <<lastDelay, uploadProgress>>

\* onSuccess of the "polling" page: checkProcessingStatus(upload.url) arms
\* the settle timer.
onSuccess_Polling ==
    /\ lastDelay' = SETTLE_DELAY
    /\ clientPc' = "settling"
    /\ UNCHANGED <<uploadStatus, uploadProgress>>

onSuccess == IF page = "transfer" THEN onSuccess_Transfer ELSE onSuccess_Polling

\* The PATCH request settles: status 204 (the upload is complete), 500,
\* or 0 for no response.
TransferSettle(status) ==
    /\ clientPc = "transferring"
    /\ IF status = 204
       THEN onSuccess /\ UNCHANGED retryAttempt
       ELSE RequestFailed(status, "transferring-retry")
    /\ tusStatus' = status
    /\ UNCHANGED <<page, file, polls, answer>>
    /\ UNCHANGED <<svars, waited, uploads, stale>>

\* The retry delay has passed: the failed request is sent again.
RetryFire ==
    /\ clientPc \in { "creating-retry", "transferring-retry" }
    /\ clientPc' = IF clientPc = "creating-retry" THEN "creating"
                   ELSE "transferring"
    /\ UNCHANGED <<page, file, retryAttempt, lastDelay, uploadStatus,
                   uploadProgress, polls, tusStatus, answer>>
    /\ UNCHANGED <<svars, waited, uploads, stale>>

\* The settle timer fires: fetch(`/api/upload-status/${uploadId}`).
SettleElapsed ==
    /\ clientPc = "settling"
    /\ polls' = polls + 1
    /\ clientPc' = "polling"
    /\ UNCHANGED <<page, file, retryAttempt, lastDelay, uploadStatus,
                   uploadProgress, tusStatus, answer>>
    /\ UNCHANGED <<svars, waited, uploads, stale>>

\* What the timer callback shows for the answer a.
pollResult_IgnoresError(a) ==
    IF a.rejects
    THEN [status |-> Status(UnverifiedText, Absent), progress |-> 100]
    ELSE IF a.resp.body.status = Some("error")
    THEN [status |-> Status(SuccessText, Absent), progress |-> 100]
    ELSE IF a.resp.body.status = Some("success")
    THEN [status |-> Status(SuccessText, Absent), progress |-> 100]
    ELSE [status |-> Status(UnknownText, Absent), progress |-> 100]

\* A callback that reads the error field of the body rather than status.
pollResult_ErrorField(a) ==
    IF a.rejects
    THEN [status |-> Status(UnverifiedText, Absent), progress |-> 100]
    ELSE IF a.resp.body.error # Absent
    THEN [status |-> Status("Error: ", a.resp.body.error), progress |-> 0]
    ELSE IF a.resp.body.status = Some("success")
    THEN [status |-> Status(SuccessText, Absent), progress |-> 100]
    ELSE [status |-> Status(UnknownText, Absent), progress |-> 100]

pollResult(a) ==
    IF a.rejects
    THEN [status |-> Status(UnverifiedText, Absent), progress |-> 100]
    ELSE IF a.resp.body.status = Some("error")
    THEN [status |-> Status("Error: ", a.resp.body.error), progress |-> 0]
    ELSE IF a.resp.body.status = Some("success")
    THEN [status |-> Status(SuccessText, Absent), progress |-> 100]
    ELSE [status |-> Status(UnknownText, Absent), progress |-> 100]

\* The status query settles with answer a and the callback shows it.
PollSettle(a) ==
    /\ clientPc = "polling"
    /\ answer' = a
    /\ uploadStatus' = pollResult(a).status
    /\ uploadProgress' = pollResult(a).progress
    /\ clientPc' = "polled"
    /\ UNCHANGED <<page, file, retryAttempt, lastDelay, polls, tusStatus>>
    /\ UNCHANGED <<svars, waited, uploads, stale>>

\* The settle timer of an earlier upload fires: its status query is sent.
StaleSettleElapsed ==
    /\ stale = "settling"
    /\ stale' = "polling"
    /\ UNCHANGED <<page, clientPc, file, retryAttempt, lastDelay, uploadStatus,
                   uploadProgress, polls, tusStatus, answer, uploads>>
    /\ UNCHANGED <<svars, waited>>

\* The status query of an earlier upload settles with answer a: the same
\* callback runs and sets the page's uploadStatus and uploadProgress.
StalePollSettle(a) ==
    /\ stale = "polling"
    /\ stale' = "applied"
    /\ uploadStatus' = pollResult(a).status
    /\ uploadProgress' = pollResult(a).progress
    /\ UNCHANGED <<page, clientPc, file, retryAttempt, lastDelay, polls,
                   tusStatus, answer, uploads>>
    /\ UNCHANGED <<svars, waited>>

\* ------------------------------------------------------- specification

InitServer ==
    /\ store = [i \in Ids |-> NoUpload]
    /\ nextId = 0
    /\ creates = [i \in Ids |-> NoCreate]
    /\ hookPc = [i \in Ids |-> "idle"]
    /\ hookCalls = [i \in Ids |-> 0]
    /\ reply = [i \in Ids |-> NoReply]
    /\ hookOut = [i \in Ids |-> NoHookOut]
    /\ finalResp = [i \in Ids |-> NoResp]
    /\ chunks = [i \in Ids |-> 0]
    /\ sent = NoSent
    /\ svcRequests = [i \in Ids |-> <<>>]
    /\ waited = [i \in Ids |-> 0]

Init == InitServer /\ InitClient("polling")

Next ==
    \/ \E md \in MetadataChoices, size \in Sizes : Create(md, size)
    \/ \E u \in Ids : \E off \in Offsets(store[u].size),
                         len \in ChunkLens(store[u].size) : Patch(u, off, len)
    \/ \E u \in Ids, f \in FetchOutcomes : FetchSettle(u, f)
    \/ \E u \in Ids, b \in TextBodies \cup JsonBodies : BodySettle(u, b)
    \/ \E u \in Ids : PatchRespond(u)
    \/ \E u \in Ids : HEAD(u)
    \/ \E u \in Ids : StatusQuery(u)

Spec == Init /\ [][Next]_vars

\* The server with the hook's waits on the clock.
NextTimed ==
    \/ \E md \in MetadataChoices, size \in Sizes : Create(md, size)
    \/ \E u \in Ids : \E off \in Offsets(store[u].size),
                         len \in ChunkLens(store[u].size) : Patch(u, off, len)
    \/ \E u \in Ids, f \in FetchOutcomes : TimedFetchSettle(u, f)
    \/ \E u \in Ids, b \in TextBodies \cup JsonBodies : BodySettle(u, b)
    \/ \E u \in Ids : PatchRespond(u)
    \/ \E u \in Ids : Tick(u)

SpecTimed == Init /\ [][NextTimed]_vars

\* The upload pages, against any behaviour of the server and the network.
InitPages == InitServer /\ \E pg \in Pages : InitClient(pg)

NextPages ==
    \/ \E t \in FileTypes, size \in FileSizes : handleUpload(t, size)
    \/ \E previous \in BOOLEAN : Discovered(previous)
    \/ \E reached \in BOOLEAN : CreateSettle(reached)
    \/ \E b \in { file.size \div 2, file.size } : onProgress(b, file.size)
    \/ \E status \in { 204, 500, 0 } : TransferSettle(status)
    \/ RetryFire
    \/ SettleElapsed
    \/ \E a \in PollAnswers : PollSettle(a)
    \/ resetUpload
    \/ StaleSettleElapsed
    \/ \E a \in PollAnswers : StalePollSettle(a)

SpecPages == InitPages /\ [][NextPages]_vars

\* ------------------------------------------------------------ properties

\* The latest step answered a status query for upload u, issued after
\* onUploadFinish had returned for u.
StatusAfterHook(u) ==
    /\ sent.op = "STATUS"
    /\ sent.id = u
    /\ hookPc[u] = "returned"

SuccessTrue == Reply("ok", "json", "", TRUE, Absent)

SuccessFalseX == Reply("ok", "json", "", FALSE, Some("X"))

\* C1: when the processing service answered {success:true}, every status
\* query issued after the hook returned yields "success" with a non-empty
\* completedAt.
C1_SuccessIsReported ==
    \A u \in Ids :
        StatusAfterHook(u) /\ reply[u] = SuccessTrue
            => /\ sent.body.status = Some("success")
               /\ Truthy(sent.body.completedAt)

\* C2: when the processing service answered {success:false, error:"X"},
\* every status query issued after the hook returned yields "error" with
\* the message "X".
C2_ServiceErrorIsReported ==
    \A u \in Ids :
        StatusAfterHook(u) /\ reply[u] = SuccessFalseX
            => /\ sent.body.status = Some("error")
               /\ sent.body.error = Some("X")

\* C3: when the call timed out, failed to connect or returned a non-2xx
\* status, every status query issued after the hook returned yields
\* "error", never "unknown".
C3_TransportFailureIsReported ==
    \A u \in Ids :
        StatusAfterHook(u) /\ reply[u].fetch \in { "abort", "connfail", "not_ok" }
            => sent.body.status = Some("error")

\* C4: onUploadFinish never throws to the engine, whatever the processing
\* service did, and the completing PATCH is answered 204.
C4_HookNeverThrows ==
    \A u \in Ids :
        /\ hookPc[u] # "threw"
        /\ HookEnded(u) => ~hookOut[u].threw
        /\ finalResp[u] # NoResp => finalResp[u].status = 204

\* C4 witness: the service sent a 2xx response with a malformed body, the
\* hook ended and the completing PATCH was answered.
C4_Witness ==
    \E u \in Ids :
        /\ reply[u].body = "malformed"
        /\ hookOut[u].errorMessage # Absent
        /\ finalResp[u].status = 204

\* C5: onUploadFinish is invoked at most once per upload id, also under
\* PATCH requests repeated after the upload is complete.
C5_HookAtMostOnce == \A u \in Ids : hookCalls[u] <= 1

\* C5 witness: a PATCH sent to a complete upload was rejected and the hook
\* has run once.
C5_Witness ==
    \E u \in Ids :
        /\ sent.op = "PATCH" /\ sent.id = u /\ sent.http = 409
        /\ store[u].present
        /\ store[u].offset = store[u].size
        /\ hookCalls[u] = 1

\* C6: the response to the chunk that completes the upload is produced
\* after onUploadFinish has returned, reports the declared length as the
\* offset, and the hook has run exactly once by then.
C6_FinalResponseAfterHook ==
    \A u \in Ids :
        /\ HookInFlight(u) => finalResp[u] = NoResp
        /\ finalResp[u] # NoResp
              => /\ hookPc[u] = "returned"
                 /\ hookCalls[u] = 1
                 /\ finalResp[u].status = 204
                 /\ finalResp[u].offset = store[u].size
                 /\ store[u].offset = store[u].size

\* C6 witness: declared length 1000 sent as two chunks of 500; the second
\* PATCH is answered with offset 1000.
C6_Witness ==
    \E u \in Ids :
        /\ store[u].size = 1000
        /\ chunks[u] = 2
        /\ sent = Sent("PATCH", u, 204, 1000, NoBody)
        /\ finalResp[u] = [status |-> 204, offset |-> 1000]
        /\ hookCalls[u] = 1

\* C7: in every step, no upload's bytesReceived decreases and none exceeds
\* the declared length; the steps of onUploadFinish are among them.
C7_BytesReceivedMonotone ==
    [][\A u \in Ids :
          /\ store[u].offset <= store'[u].offset
          /\ store'[u].offset <= store'[u].size]_vars

\* C7 witness: an upload completed by two chunks whose hook has returned
\* with bytesReceived still at the declared length.
C7_Witness ==
    \E u \in Ids :
        /\ chunks[u] = 2
        /\ hookPc[u] = "returned"
        /\ store[u].offset = store[u].size
        /\ store[u].size = MAX_CSV_SIZE

\* C8: a status query for an id that was never created is answered 404
\* "Upload not found".
C8_NeverCreatedIsNotFound ==
    sent.op = "STATUS" /\ ~store[sent.id].present
        => /\ sent.http = 404
           /\ sent.body.error = Some("Upload not found")

\* C9: a create request whose filetype is not "text/csv" is answered 400
\* whatever its declared length, and no upload with its id is in the store.
C9_WrongTypeRejected ==
    \A i \in Ids :
        creates[i].made /\ FiletypeOf(creates[i].metadata) # Some("text/csv")
            => /\ creates[i].status = 400
               /\ ~store[i].present
               /\ store[i].offset = 0

\* C9 witness: an oversized application/json create request was answered
\* 400.
C9_Witness ==
    \E i \in Ids :
        /\ creates[i].made
        /\ creates[i].metadata.filetype = Some("application/json")
        /\ creates[i].size = 60 * 1024 * 1024
        /\ sent = Sent("POST", i, 400, 0, NoBody)

\* C10: a "text/csv" create request is answered 413 when its declared
\* length exceeds 52,428,800 bytes and is accepted when it does not.
C10_SizeLimit ==
    /\ MAX_CSV_SIZE = 52428800
    /\ \A i \in Ids :
          creates[i].made /\ FiletypeOf(creates[i].metadata) = Some("text/csv")
              => IF creates[i].size > 52428800
                 THEN creates[i].status = 413 /\ ~store[i].present
                 ELSE creates[i].status = 201 /\ store[i].present

\* C10 witness: a text/csv create request one byte over the maximum was
\* answered 413.
C10_Witness ==
    \E i \in Ids :
        /\ creates[i].made
        /\ creates[i].metadata = PlainCsv
        /\ creates[i].size = 52428801
        /\ sent = Sent("POST", i, 413, 0, NoBody)

\* C11: a status query leaves every upload's received bytes, declared
\* length and metadata as they were, wherever it falls among creates,
\* appends and hook steps.
C11_StatusQueryIsProjection ==
    [][sent'.op = "STATUS" => store' = store]_vars

\* C11 witness: a status query was answered 200 for an upload whose bytes
\* have all arrived and whose hook has run.
C11_Witness ==
    \E u \in Ids :
        /\ sent.op = "STATUS" /\ sent.id = u /\ sent.http = 200
        /\ store[u].present
        /\ store[u].offset = store[u].size
        /\ HookEnded(u)

\* C12: by the time onUploadFinish has returned for a complete upload it
\* has written to the upload's metadata exactly once.
C12_HookWritesOnce ==
    \A u \in Ids : HookEnded(u) => Len(hookOut[u].writes) = 1

\* C14: every invocation of onUploadFinish has sent exactly one request to
\* the processing service, with the upload id as s3_key and as table_name,
\* and sends no further request after a failure or a timeout.
C14_OneRequestPerInvocation ==
    \A u \in Ids :
        /\ Len(svcRequests[u]) = hookCalls[u]
        /\ hookPc[u] # "idle" => Len(svcRequests[u]) = 1
        /\ \A k \in 1..Len(svcRequests[u]) :
               svcRequests[u][k] = [s3_key |-> u, table_name |-> u]

\* C14 witness: the hook ended after a timeout or a connection failure
\* and the service was sent one request.
C14_Witness ==
    \E u \in Ids :
        /\ HookEnded(u)
        /\ reply[u].fetch \in { "abort", "connfail" }
        /\ svcRequests[u] = << [s3_key |-> u, table_name |-> u] >>

\* The status a query for upload record up reports (Absent when it reports
\* none).
Projection(up) == GET(0, [threw |-> FALSE, upload |-> up]).body.status

Terminal == { Some("success"), Some("error") }

\* C15: once the status of an upload is "success" or "error", no step
\* makes a status query report anything else for it.
C15_OutcomesAreTerminal ==
    [][\A u \in Ids :
          Projection(store[u]) \in Terminal
              => Projection(store'[u]) = Projection(store[u])]_vars

\* C15 witness: a status query issued after the hook had returned was
\* answered "success" or "error".
C15_Witness ==
    \E u \in Ids :
        /\ StatusAfterHook(u)
        /\ sent.body.status \in Terminal
        /\ finalResp[u] # NoResp

\* C19: the hook's error message is the timeout message after an abort,
\* the service-unavailable message after a connection failure and the
\* service's own text after a failure the service reported.
C19_MessageClassifiesFailure ==
    \A u \in Ids :
        HookEnded(u) =>
            /\ reply[u].fetch = "abort"
                 => hookOut[u].errorMessage =
                      Some("CSV processing timed out. Please try again with a smaller file.")
            /\ reply[u].fetch = "connfail"
                 => hookOut[u].errorMessage =
                      Some("CSV processing service is not available. Please check if the processing service is running.")
            /\ reply[u] = SuccessFalseX => hookOut[u].errorMessage = Some("X")

\* C20: the status a query reports for an upload is "error" with the
\* stored message when processing_error is a non-empty string, whatever
\* processing_status is; otherwise "success" when processing_status is
\* "success"; otherwise "unknown".
C20_ErrorTakesPrecedence ==
    sent.op = "STATUS" /\ sent.http = 200 =>
        LET md == store[sent.id].metadata IN
        IF md.processing_error \notin { Absent, Some("") }
        THEN /\ sent.body.status = Some("error")
             /\ sent.body.error = md.processing_error
        ELSE IF md.processing_status = Some("success")
        THEN sent.body.status = Some("success")
        ELSE sent.body.status = Some("unknown")

\* C20 witness: an upload holding both a processing_error and the
\* processing_status "success" was reported as "error".
C20_Witness ==
    /\ sent.op = "STATUS"
    /\ store[sent.id].metadata.processing_error = Some("E")
    /\ store[sent.id].metadata.processing_status = Some("success")
    /\ sent.body.status = Some("error")

\* C13: from the start of the call to the processing service, the hook
\* has never waited longer than the timeout, whether it waits for the
\* response headers or for the response body.
C13_WaitBoundedByTimeout ==
    \A u \in Ids : hookPc[u] # "idle" => waited[u] <= HOOK_TIMEOUT

C17_SuccessOnlyAfterStatusSuccess ==
    uploadStatus.text = SuccessText =>
        /\ answer.settled
        /\ ~answer.rejects
        /\ answer.resp.body.status = Some("success")

\* C18: a failed request of an upload is retried at most four times,
\* after the delays 0, 3000, 5000 and 10000 in this order, none shorter
\* than the one before; a failure after the last retry ends in the failed
\* state, which shows an error with progress 0 and which the upload never
\* leaves (only a reset or a new file does); a create request answered
\* 400 or 413 ends in the failed state at once and uses no retry.
C18_BoundedRetries ==
    [][/\ retryAttempt' <= 4
       /\ retryAttempt' # retryAttempt =>
             \/ clientPc' = "discovering" /\ retryAttempt' = 0
             \/ /\ retryAttempt' = retryAttempt + 1
                /\ lastDelay' = << 0, 3000, 5000, 10000 >>[retryAttempt']
                /\ lastDelay' >= lastDelay
                /\ tusStatus' \notin { 400, 413 }
       /\ retryAttempt = 4 /\ clientPc \in { "creating", "transferring" }
            /\ tusStatus' \notin { 201, 204 } /\ clientPc' # clientPc
               => clientPc' = "failed"
       /\ clientPc # "failed" /\ clientPc' = "failed" =>
             /\ uploadStatus'.text = "Error: "
             /\ uploadProgress' = 0
       /\ clientPc = "failed" => clientPc' \in { "failed", "idle", "discovering" }
       /\ clientPc = "creating" /\ clientPc' # clientPc
            /\ tusStatus' \in { 400, 413 }
               => clientPc' = "failed" /\ retryAttempt' = retryAttempt
      ]_vars

\* C18 witness: the upload failed after four retries, the last one after
\* 10000 ms.
C18_Witness ==
    /\ clientPc = "failed"
    /\ retryAttempt = 4
    /\ lastDelay = 10000
    /\ tusStatus = 0
    /\ uploadStatus.text = "Error: "

\* C21: when the polling page's status query is answered 404 or 500 with
\* a JSON body, its callback shows the message that the processing status
\* is unknown with progress 100, as for the answer "unknown", and neither
\* an error nor the success message.
C21_NotFoundShownAsUnknown ==
    [][(/\ clientPc = "polling"
        /\ clientPc' = "polled"
        /\ ~answer'.rejects
        /\ answer'.resp.http \in { 404, 500 })
          => /\ uploadStatus' = Status(UnknownText, Absent)
             /\ uploadProgress' = 100
             /\ uploadStatus'.text \notin { "Error: ", SuccessText }
      ]_vars

\* C21 witness: the status query was answered 404 "Upload not found" and
\* the page shows that the processing status is unknown.
C21_Witness ==
    /\ page = "polling"
    /\ clientPc = "polled"
    /\ answer.resp.http = 404
    /\ answer.resp.body.error = Some("Upload not found")
    /\ uploadStatus = Status(UnknownText, Absent)
    /\ uploadProgress = 100

\* C22: when the status query of an upload the page has left (by a reset
\* or a new file) settles, its callback leaves the displayed status and
\* progress as they are.
C22_LatePollIsDropped ==
    [][stale = "polling" /\ stale' = "applied"
          => /\ uploadStatus' = uploadStatus
             /\ uploadProgress' = uploadProgress]_vars


====
